---- MODULE Spec2Model ----
(***************************************************************************)
(* Model of the package-group "run" commands of the admin consumer         *)
(* extension (rpm_admin_consumer/group.py): Install.run / Install.install  *)
(* / Install.succeeded and Uninstall.run / Uninstall.uninstall /           *)
(* Uninstall.succeeded.                                                    *)
(*                                                                         *)
(* One behaviour is one invocation of a command.  The variable trace is    *)
(* the ordered log of everything the command does that is visible outside  *)
(* of it: the calls it makes (server bindings, inherited PollingCommand    *)
(* methods) and the prompt methods it invokes.  Texts are kept as tuples   *)
(* of segments, so that '%'-interpolation is a concatenation and not the   *)
(* identity. gettext's _() is taken in the untranslated locale.            *)
(***************************************************************************)
EXTENDS Integers, Sequences, FiniteSets, TLC

VARIABLES
    command,        \* which command object runs: "Install" or "Uninstall"
    kwargs,         \* the parsed command line handed to run(**kwargs)
    pc,             \* position inside run / install / uninstall
    install_args,   \* <<>> or <<[consumer_id, units, options]>>: arguments of install()/uninstall()
    task,           \* <<>> or <<task>>: the local variable task
    trace,          \* calls made and prompt methods invoked, in order
    raised,         \* exception raised inside the try block ("none" if none)
    escaped,        \* exception that left install()/uninstall() ("none" if none)
    read,           \* keys of the details document read by succeeded()
    polls           \* number of unfinished polls seen by the running process()

vars == <<command, kwargs, pc, install_args, task, trace, raised, escaped, read, polls>>

-----------------------------------------------------------------------------
(* Bounds *)

MaxNames == 2       \* at most this many --name values on a command line
MaxDocs == 2        \* at most this many entries in 'resolved' and in 'deps'
MaxPolls == 1       \* at most this many unfinished polls before completion

-----------------------------------------------------------------------------
(* Input domains *)

Commands == {"Install", "Uninstall"}
ConsumerIds == {"c1", "c2"}
GroupNames == {"g1", "g2"}
TaskIds == {"t1", "t2"}
Messages == {"m1", "m2"}
OtherExceptions == {"ConnectionException", "KeyError"}
Exceptions == {"NotFoundException"} \cup OtherExceptions

TYPE_ID_PKG_GROUP == "package_group"

SeqsUpTo(S, lo, hi) == UNION {[1..n -> S] : n \in lo..hi}

\* package documents as the server returns them: more keys than are displayed
Docs == { [name |-> "p1", version |-> "1.0", arch |-> "noarch", repoid |-> "r1", release |-> "1"],
          [name |-> "p2", version |-> "2.0", arch |-> "x86_64", repoid |-> "r2", release |-> "3"] }
DocLists == SeqsUpTo(Docs, 0, MaxDocs)

\* task.result as read by succeeded(): result['status'] and
\* result['details'][TYPE_ID_PKG_GROUP]['details'] with message / resolved / deps
Result(status, message, resolved, deps) ==
    [status |-> status,
     details |-> (TYPE_ID_PKG_GROUP :>
                    [details |-> [message |-> message, resolved |-> resolved, deps |-> deps]])]

\* a failed result may still carry resolved / deps entries
Results ==
    {Result(FALSE, m, r, d) : m \in Messages, r, d \in SeqsUpTo(Docs, 0, 1)}
    \cup {Result(TRUE, "", r, d) : r \in DocLists, d \in DocLists}

\* kwargs built by the option parser from the options each command creates
InstallKwargs ==
    { ("consumer-id" :> c) @@ ("no-commit" :> nc) @@ ("reboot" :> rb)
      @@ ("name" :> ns) @@ ("import-keys" :> ik) :
        c \in ConsumerIds, nc \in BOOLEAN, rb \in BOOLEAN,
        ns \in SeqsUpTo(GroupNames, 1, MaxNames), ik \in BOOLEAN }

UninstallKwargs ==
    { ("consumer-id" :> c) @@ ("no-commit" :> nc) @@ ("reboot" :> rb)
      @@ ("name" :> ns) :
        c \in ConsumerIds, nc \in BOOLEAN, rb \in BOOLEAN,
        ns \in SeqsUpTo(GroupNames, 1, MaxNames) }

Kwargs(cmd) == IF cmd = "Install" THEN InstallKwargs ELSE UninstallKwargs

-----------------------------------------------------------------------------
(* Events of the trace *)

Call(name, arg, outcome, ret) ==
    [ev |-> "call", name |-> name, arg |-> arg, outcome |-> outcome, ret |-> ret]

render_success_message(text) ==
    [ev |-> "prompt", method |-> "render_success_message", text |-> text]
render_failure_message(text) ==
    [ev |-> "prompt", method |-> "render_failure_message", text |-> text]
render_title(text) ==
    [ev |-> "prompt", method |-> "render_title", text |-> text]
render_document_list(items, order, filters) ==
    [ev |-> "prompt", method |-> "render_document_list",
     items |-> items, order |-> order, filters |-> filters]
write(text, tag) ==
    [ev |-> "prompt", method |-> "write", text |-> text, tag |-> tag]

-----------------------------------------------------------------------------
(* run(): options and units *)

\* variant: apply copies --no-commit instead of negating it
InstallOptions_apply_copied(kw) ==
    [apply |-> kw["no-commit"], importkeys |-> kw["import-keys"], reboot |-> kw["reboot"]]

InstallOptions(kw) ==
    [apply |-> ~kw["no-commit"], importkeys |-> kw["import-keys"], reboot |-> kw["reboot"]]

\* variant: the uninstall bag built like the install bag, importkeys defaulted
UninstallOptions_with_importkeys(kw) ==
    [apply |-> ~kw["no-commit"], importkeys |-> FALSE, reboot |-> kw["reboot"]]

UninstallOptions(kw) ==
    [apply |-> ~kw["no-commit"], reboot |-> kw["reboot"]]

RunOptions(cmd, kw) == IF cmd = "Install" THEN InstallOptions(kw) ELSE UninstallOptions(kw)

\* variant: units.insert(0, unit) instead of units.append(unit)
RunUnits_prepended(kw) ==
    [i \in 1..Len(kw["name"]) |->
        [type_id |-> TYPE_ID_PKG_GROUP,
         unit_key |-> [name |-> kw["name"][Len(kw["name"]) + 1 - i]]]]

RunUnits(kw) ==
    [i \in 1..Len(kw["name"]) |->
        [type_id |-> TYPE_ID_PKG_GROUP, unit_key |-> [name |-> kw["name"][i]]]]

-----------------------------------------------------------------------------
(* install() / uninstall(): texts and control decisions *)

RequestName(cmd) == IF cmd = "Install" THEN "install" ELSE "uninstall"

\* variant: the message interpolates the consumer id instead of the task id
created_msg_consumer(cmd, t, consumer_id) ==
    IF cmd = "Install"
    THEN <<"Install task created with id [", consumer_id, "]">>
    ELSE <<"Uninstall task created with id[", consumer_id, "]">>

created_msg(cmd, t, consumer_id) ==
    IF cmd = "Install"
    THEN <<"Install task created with id [", t.task_id, "]">>
    ELSE <<"Uninstall task created with id[", t.task_id, "]">>

get_task_arg(t) == t.task_id

\* variant: the result of rejected() is ignored
AfterRejected_ignored(r) == "postponed"

AfterRejected(r) == IF r THEN "returned" ELSE "postponed"

AfterPostponed(p) == IF p THEN "returned" ELSE "process"

\* variant: the handler swallows NotFoundException without writing
except_clause_silent(e, consumer_id) ==
    IF e = "NotFoundException"
    THEN [caught |-> TRUE, out |-> <<>>]
    ELSE [caught |-> FALSE, out |-> <<>>]

\* variant: a bare except, every exception is reported as consumer-not-found
except_clause_bare(e, consumer_id) ==
    [caught |-> TRUE,
     out |-> <<write(<<"Consumer [", consumer_id, "] not found">>, "not-found")>>]

\* the except clause: what is written, and whether the exception is swallowed
except_clause(e, consumer_id) ==
    IF e = "NotFoundException"
    THEN [caught |-> TRUE,
          out |-> <<write(<<"Consumer [", consumer_id, "] not found">>, "not-found")>>]
    ELSE [caught |-> FALSE, out |-> <<>>]

\* a call inside the try block raised e
Raise(callEvent, e) ==
    LET h == except_clause(e, install_args[1].consumer_id) IN
    /\ trace' = Append(trace, callEvent) \o h.out
    /\ raised' = e
    /\ escaped' = IF h.caught THEN "none" ELSE e
    /\ pc' = IF h.caught THEN "returned" ELSE "raised"

-----------------------------------------------------------------------------
(* succeeded() *)

filter == <<"name", "version", "arch", "repoid">>

FailedText(cmd) == IF cmd = "Install" THEN "Install failed" ELSE "Uninstall Failed"
SucceededText(cmd) == IF cmd = "Install" THEN "Install Succeeded" ELSE "Uninstall Succeeded"
ResolvedTitle(cmd) == IF cmd = "Install" THEN "Installed" ELSE "Uninstalled"
NothingText(cmd) ==
    IF cmd = "Install" THEN "Packages for groups already installed"
    ELSE "No matching packages found to uninstall"
DepsTitle(cmd) ==
    IF cmd = "Install" THEN "Installed for dependency" ELSE "Uninstalled for dependency"

\* variant: the else branch is missing, the table is rendered even when empty
ResolvedPart_no_else(cmd, resolved) ==
    <<render_title(<<ResolvedTitle(cmd)>>), render_document_list(resolved, filter, filter)>>

ResolvedPart(cmd, resolved) ==
    IF resolved # <<>>
    THEN <<render_title(<<ResolvedTitle(cmd)>>), render_document_list(resolved, filter, filter)>>
    ELSE <<render_success_message(<<NothingText(cmd)>>)>>

DepsPart(cmd, deps) ==
    IF deps # <<>>
    THEN <<render_title(<<DepsTitle(cmd)>>), render_document_list(deps, filter, filter)>>
    ELSE <<>>

\* variant: the return after the failure messages is missing
succeeded_no_return(cmd, t) ==
    LET details == t.result.details[TYPE_ID_PKG_GROUP].details
        failure == IF ~t.result.status
                   THEN <<render_failure_message(<<FailedText(cmd)>>),
                          render_failure_message(<<details.message>>)>>
                   ELSE <<>>
    IN
    [out |-> failure
             \o <<render_success_message(<<SucceededText(cmd)>>)>>
             \o ResolvedPart(cmd, details.resolved)
             \o DepsPart(cmd, details.deps),
     read |-> (IF ~t.result.status THEN {"message"} ELSE {}) \cup {"resolved", "deps"}]

\* variant: the deps block is nested inside the 'if resolved' branch
succeeded_deps_nested(cmd, t) ==
    LET details == t.result.details[TYPE_ID_PKG_GROUP].details IN
    IF ~t.result.status
    THEN [out |-> <<render_failure_message(<<FailedText(cmd)>>),
                    render_failure_message(<<details.message>>)>>,
          read |-> {"message"}]
    ELSE [out |-> <<render_success_message(<<SucceededText(cmd)>>)>>
                  \o ResolvedPart(cmd, details.resolved)
                  \o (IF details.resolved # <<>> THEN DepsPart(cmd, details.deps) ELSE <<>>),
          read |-> {"resolved", "deps"}]

succeeded(cmd, t) ==
    LET details == t.result.details[TYPE_ID_PKG_GROUP].details IN
    IF ~t.result.status
    THEN [out |-> <<render_failure_message(<<FailedText(cmd)>>),
                    render_failure_message(<<details.message>>)>>,
          read |-> {"message"}]
    ELSE [out |-> <<render_success_message(<<SucceededText(cmd)>>)>>
                  \o ResolvedPart(cmd, details.resolved)
                  \o DepsPart(cmd, details.deps),
          read |-> {"resolved", "deps"}]

-----------------------------------------------------------------------------
(* State machine *)

Init ==
    /\ command \in Commands
    /\ kwargs \in Kwargs(command)
    /\ pc = "run"
    /\ install_args = <<>>
    /\ task = <<>>
    /\ trace = <<>>
    /\ raised = "none"
    /\ escaped = "none"
    /\ read = {}
    /\ polls = 0

\* run(**kwargs) up to the call of self.install / self.uninstall
Run ==
    /\ pc = "run"
    /\ install_args' = <<[consumer_id |-> kwargs["consumer-id"],
                          units |-> RunUnits(kwargs),
                          options |-> RunOptions(command, kwargs)]>>
    /\ pc' = "request"
    /\ UNCHANGED <<command, kwargs, task, trace, raised, escaped, read, polls>>

\* server.consumer_content.install / uninstall (consumer_id, units=, options=)
Request ==
    /\ pc = "request"
    /\ \/ \E tid \in TaskIds :
            /\ trace' = Append(trace, Call(RequestName(command), install_args[1], "ok", tid))
            /\ task' = <<[task_id |-> tid]>>
            /\ pc' = "created"
            /\ UNCHANGED <<raised, escaped>>
       \/ \E e \in Exceptions :
            /\ Raise(Call(RequestName(command), install_args[1], e, ""), e)
            /\ UNCHANGED task
    /\ UNCHANGED <<command, kwargs, install_args, read, polls>>

\* prompt.render_success_message('... task created with id ...')
RenderCreated ==
    /\ pc = "created"
    /\ trace' = Append(trace,
            render_success_message(created_msg(command, task[1], install_args[1].consumer_id)))
    /\ pc' = "get_task"
    /\ UNCHANGED <<command, kwargs, install_args, task, raised, escaped, read, polls>>

\* server.tasks.get_task(task.task_id); task = response.response_body
GetTask ==
    /\ pc = "get_task"
    /\ \/ /\ trace' = Append(trace, Call("get_task", get_task_arg(task[1]), "ok", get_task_arg(task[1])))
          /\ task' = <<[task_id |-> get_task_arg(task[1])]>>
          /\ pc' = "rejected"
          /\ UNCHANGED <<raised, escaped>>
       \/ \E e \in Exceptions :
            /\ Raise(Call("get_task", get_task_arg(task[1]), e, ""), e)
            /\ UNCHANGED task
    /\ UNCHANGED <<command, kwargs, install_args, read, polls>>

\* if self.rejected(task): return
Rejected ==
    /\ pc = "rejected"
    /\ \/ \E r \in BOOLEAN :
            /\ trace' = Append(trace, Call("rejected", task[1], "ok", r))
            /\ pc' = AfterRejected(r)
            /\ UNCHANGED <<raised, escaped>>
       \/ \E e \in Exceptions : Raise(Call("rejected", task[1], e, ""), e)
    /\ UNCHANGED <<command, kwargs, install_args, task, read, polls>>

\* if self.postponed(task): return
Postponed ==
    /\ pc = "postponed"
    /\ \/ \E p \in BOOLEAN :
            /\ trace' = Append(trace, Call("postponed", task[1], "ok", p))
            /\ pc' = AfterPostponed(p)
            /\ UNCHANGED <<raised, escaped>>
       \/ \E e \in Exceptions : Raise(Call("postponed", task[1], e, ""), e)
    /\ UNCHANGED <<command, kwargs, install_args, task, read, polls>>

\* self.process(consumer_id, task) is entered
Process ==
    /\ pc = "process"
    /\ trace' = Append(trace, Call("process", <<install_args[1].consumer_id, task[1]>>, "ok", ""))
    /\ pc' = "polling"
    /\ UNCHANGED <<command, kwargs, install_args, task, raised, escaped, read, polls>>

\* PollingCommand.process: poll the task until it completes, then dispatch;
\* polls is local to process and is gone once process is left
Poll ==
    /\ pc = "polling"
    /\ \/ /\ polls < MaxPolls
          /\ polls' = polls + 1
          /\ UNCHANGED <<trace, task, pc, raised, escaped>>
       \/ \E res \in Results :
            /\ task' = <<[task_id |-> task[1].task_id, result |-> res]>>
            /\ pc' = "succeeded"
            /\ polls' = 0
            /\ UNCHANGED <<trace, raised, escaped>>
       \/ /\ pc' = "returned"
          /\ polls' = 0
          /\ UNCHANGED <<trace, task, raised, escaped>>
       \/ \E e \in Exceptions :
            /\ Raise(Call("process.poll", task[1].task_id, e, ""), e)
            /\ polls' = 0
            /\ UNCHANGED task
    /\ UNCHANGED <<command, kwargs, install_args, read>>

\* self.succeeded(id, task)
Succeeded ==
    /\ pc = "succeeded"
    /\ trace' = trace \o succeeded(command, task[1]).out
    /\ read' = succeeded(command, task[1]).read
    /\ pc' = "returned"
    /\ UNCHANGED <<command, kwargs, install_args, task, raised, escaped, polls>>

Next ==
    \/ Run
    \/ Request
    \/ RenderCreated
    \/ GetTask
    \/ Rejected
    \/ Postponed
    \/ Process
    \/ Poll
    \/ Succeeded

Spec == Init /\ [][Next]_vars

-----------------------------------------------------------------------------
(* Properties *)

Out == SelectSeq(trace, LAMBDA e : e.ev = "prompt")
CallsNamed(name) == SelectSeq(trace, LAMBDA e : e.ev = "call" /\ e.name = name)
NotFoundWrites ==
    SelectSeq(trace, LAMBDA e : e.ev = "prompt" /\ e.method = "write" /\ e.tag = "not-found")
IsRequestCall(e) == e.ev = "call" /\ e.name \in {"install", "uninstall"}
IsCall(e, name) == e.ev = "call" /\ e.name = name
Requested == Len(CallsNamed(RequestName(command))) > 0
SentRequest == CallsNamed(RequestName(command))[1].arg
\* succeeded() has run to its end on the completed task
SucceededDone == pc = "returned" /\ Len(task) = 1 /\ "result" \in DOMAIN task[1]
Details == task[1].result.details[TYPE_ID_PKG_GROUP].details
\* what succeeded() rendered: everything after the 'task created' message
SucceededOut == SubSeq(Out, 2, Len(Out))

\* C1: a NotFoundException raised inside install/uninstall does not escape and
\* produces exactly one 'Consumer [<consumer_id>] not found' write tagged
\* 'not-found' carrying the consumer id passed in; without a
\* NotFoundException no 'not-found' message is written.
C1_NotFoundReported ==
    /\ raised = "NotFoundException" =>
          /\ pc = "returned"
          /\ escaped = "none"
          /\ NotFoundWrites =
                <<write(<<"Consumer [", install_args[1].consumer_id, "] not found">>, "not-found")>>
          /\ install_args[1].consumer_id = kwargs["consumer-id"]
    /\ raised # "NotFoundException" => NotFoundWrites = <<>>

C1_Witness ==
    /\ raised = "NotFoundException"
    /\ Len(trace) = 4
    /\ IsCall(trace[3], "get_task")
    /\ trace[3].outcome = "NotFoundException"
    /\ Len(NotFoundWrites) = 1

\* C2: with status false succeeded() renders exactly two failure messages, the
\* generic failure text and then details['message']; nothing else is rendered
\* and 'resolved' and 'deps' are not read.
C2_FailureOutput ==
    (SucceededDone /\ ~task[1].result.status) =>
        /\ SucceededOut =
             <<render_failure_message(
                   <<IF command = "Install" THEN "Install failed" ELSE "Uninstall Failed">>),
               render_failure_message(<<Details.message>>)>>
        /\ read \cap {"resolved", "deps"} = {}

C2_Witness ==
    /\ SucceededDone
    /\ ~task[1].result.status
    /\ Details.resolved # <<>>
    /\ Details.deps # <<>>
    /\ Len(Out) = 3

\* C3: with status true the success message comes first, no failure message is
\* rendered, and then exactly one of: the title and the document list of the
\* server's 'resolved' entries filtered and ordered by name, version, arch,
\* repoid (when 'resolved' is non-empty), or the nothing-to-do message.
C3_SuccessOutput ==
    (SucceededDone /\ task[1].result.status) =>
        LET title == render_title(<<IF command = "Install" THEN "Installed" ELSE "Uninstalled">>)
            nothing == render_success_message(
                          <<IF command = "Install" THEN "Packages for groups already installed"
                            ELSE "No matching packages found to uninstall">>)
            cols == <<"name", "version", "arch", "repoid">>
        IN
        /\ SucceededOut[1] = render_success_message(
              <<IF command = "Install" THEN "Install Succeeded" ELSE "Uninstall Succeeded">>)
        /\ \A i \in 1..Len(Out) : Out[i].method # "render_failure_message"
        /\ IF Details.resolved # <<>>
           THEN /\ SucceededOut[2] = title
                /\ SucceededOut[3] = render_document_list(Details.resolved, cols, cols)
                /\ \A i \in 1..Len(SucceededOut) : SucceededOut[i] # nothing
           ELSE /\ SucceededOut[2] = nothing
                /\ \A i \in 1..Len(SucceededOut) : SucceededOut[i] # title

C3_Witness ==
    /\ SucceededDone
    /\ task[1].result.status
    /\ Len(Details.resolved) = 2
    /\ Details.resolved[1] # Details.resolved[2]
    /\ Len(SucceededOut) >= 3

\* C4: the units sent hold one descriptor per --name value, in order and with
\* duplicates kept, each with the package-group type id and a unit_key whose
\* only field is name; the consumer id sent is the --consumer-id value.
C4_UnitsSent ==
    Requested =>
        /\ Len(SentRequest.units) = Len(kwargs["name"])
        /\ \A i \in 1..Len(kwargs["name"]) :
              /\ DOMAIN SentRequest.units[i] = {"type_id", "unit_key"}
              /\ SentRequest.units[i].type_id = TYPE_ID_PKG_GROUP
              /\ DOMAIN SentRequest.units[i].unit_key = {"name"}
              /\ SentRequest.units[i].unit_key.name = kwargs["name"][i]
        /\ SentRequest.consumer_id = kwargs["consumer-id"]

C4_Witness ==
    /\ Requested
    /\ kwargs["name"] = <<"g2", "g2">>
    /\ Len(SentRequest.units) = 2

\* C5 (as stated): the options bag sent by both Install.run and Uninstall.run
\* carries the three booleans apply, importkeys and reboot.
C5_Original ==
    Requested =>
        /\ DOMAIN SentRequest.options = {"apply", "importkeys", "reboot"}
        /\ \A k \in DOMAIN SentRequest.options : SentRequest.options[k] \in BOOLEAN

\* C5 (amended): the options bag sent by Install.run carries the three
\* booleans apply, importkeys and reboot; the one sent by Uninstall.run
\* carries only the two booleans apply and reboot.
C5_OptionKeys ==
    Requested =>
        /\ DOMAIN SentRequest.options =
              IF command = "Install" THEN {"apply", "importkeys", "reboot"}
              ELSE {"apply", "reboot"}
        /\ \A k \in DOMAIN SentRequest.options : SentRequest.options[k] \in BOOLEAN

C5_Witness ==
    /\ Requested
    /\ command = "Uninstall"
    /\ "importkeys" \notin DOMAIN SentRequest.options

CreatedPrefixes == {"Install task created with id [", "Uninstall task created with id["}
IsCreatedMsg(e) ==
    e.ev = "prompt" /\ e.method = "render_success_message" /\ e.text[1] \in CreatedPrefixes
CreatedFor(id) ==
    render_success_message(
        IF command = "Install" THEN <<"Install task created with id [", id, "]">>
        ELSE <<"Uninstall task created with id[", id, "]">>)
IsSucceededOutput(e) ==
    e.ev = "prompt" /\ e.method # "write" /\ ~IsCreatedMsg(e)
Positions(P(_)) == {i \in 1..Len(trace) : P(trace[i])}

\* C6: one invocation is one fixed sequence: exactly one install/uninstall
\* request; only if it returned, the 'task created' message, once and with the
\* id of the returned task; only after it, exactly one get_task call for that
\* id; processing (and the succeeded output) only after get_task returned.
\* Nothing is repeated or reordered.
C6_FixedSequence ==
    LET getTask(e) == IsCall(e, "get_task")
        process(e) == IsCall(e, "process")
    IN
    /\ Positions(IsRequestCall) \subseteq {1}
    /\ pc \notin {"run", "request"} =>
          /\ Positions(IsRequestCall) = {1}
          /\ trace[1].name = RequestName(command)
    /\ Positions(IsCreatedMsg) \subseteq {2}
    /\ Positions(IsCreatedMsg) = {2} =>
          /\ trace[1].outcome = "ok"
          /\ trace[2] = CreatedFor(trace[1].ret)
    /\ (pc \notin {"run", "request", "created"} /\ trace[1].outcome = "ok") =>
          Positions(IsCreatedMsg) = {2}
    /\ Positions(getTask) \subseteq {3}
    /\ Positions(getTask) = {3} =>
          /\ Positions(IsCreatedMsg) = {2}
          /\ trace[3].arg = trace[1].ret
    /\ (pc \notin {"run", "request", "created", "get_task"} /\ trace[1].outcome = "ok") =>
          Positions(getTask) = {3}
    /\ Cardinality(Positions(process)) <= 1
    /\ \A i \in Positions(process) :
          /\ i > 3
          /\ Positions(getTask) = {3}
          /\ trace[3].outcome = "ok"
    /\ \A i \in Positions(IsSucceededOutput) :
          \E j \in Positions(process) : j < i

C6_Witness ==
    /\ pc = "returned"
    /\ Len(task) = 1
    /\ "result" \in DOMAIN task[1]
    /\ Len(trace) > 6
    /\ IsCall(trace[6], "process")
    /\ trace[3].arg = "t2"

\* C7: NotFoundException is the only exception caught: any other exception
\* raised by the request, by get_task or by task processing leaves the
\* operation unchanged, no 'not-found' message is written for it and no later
\* step runs after it.
C7_OthersPropagate ==
    /\ raised \notin {"none", "NotFoundException"} =>
          /\ pc = "raised"
          /\ escaped = raised
          /\ NotFoundWrites = <<>>
          /\ trace[Len(trace)].ev = "call"
          /\ trace[Len(trace)].outcome = raised
          /\ \A i \in 1..(Len(trace) - 1) :
                trace[i].ev = "call" => trace[i].outcome = "ok"
    /\ escaped # "none" => raised = escaped /\ raised # "NotFoundException"

C7_Witness ==
    /\ raised = "KeyError"
    /\ pc = "raised"
    /\ IsCall(trace[Len(trace)], "get_task")

\* C8: rejection is checked first, postponement second, processing only if
\* both are false: a rejected task is not checked for postponement and not
\* processed, a postponed task is not processed; in both cases the operation
\* returns normally and renders nothing after the 'task created' message.
C8_RejectedPostponed ==
    LET rejectedCalls == CallsNamed("rejected")
        postponedCalls == CallsNamed("postponed")
        processCalls == CallsNamed("process")
        isTrue(c) == c.outcome = "ok" /\ c.ret
        isFalse(c) == c.outcome = "ok" /\ ~c.ret
    IN
    /\ Len(rejectedCalls) <= 1 /\ Len(postponedCalls) <= 1
    /\ (Len(rejectedCalls) = 1 /\ isTrue(rejectedCalls[1])) =>
          /\ postponedCalls = <<>>
          /\ processCalls = <<>>
          /\ pc = "returned" /\ escaped = "none"
          /\ Len(Out) = 1 /\ IsCreatedMsg(Out[1])
    /\ Len(postponedCalls) = 1 =>
          /\ Len(rejectedCalls) = 1 /\ isFalse(rejectedCalls[1])
          /\ IsCall(trace[4], "rejected") /\ IsCall(trace[5], "postponed")
    /\ (Len(postponedCalls) = 1 /\ isTrue(postponedCalls[1])) =>
          /\ processCalls = <<>>
          /\ pc = "returned" /\ escaped = "none"
          /\ Len(Out) = 1 /\ IsCreatedMsg(Out[1])
    /\ processCalls # <<>> =>
          /\ Len(rejectedCalls) = 1 /\ isFalse(rejectedCalls[1])
          /\ Len(postponedCalls) = 1 /\ isFalse(postponedCalls[1])

C8_Witness ==
    /\ Len(CallsNamed("rejected")) = 1
    /\ CallsNamed("rejected")[1].outcome = "ok"
    /\ CallsNamed("rejected")[1].ret
    /\ pc = "returned"

\* C9: for every combination of flags, apply sent is the negation of
\* --no-commit, reboot equals --reboot and, for Install, importkeys equals
\* --import-keys; the options are fixed by the flags alone.
C9_OptionValues ==
    Requested =>
        /\ SentRequest.options.apply = ~kwargs["no-commit"]
        /\ SentRequest.options.reboot = kwargs["reboot"]
        /\ command = "Install" =>
              SentRequest.options.importkeys = kwargs["import-keys"]
        /\ DOMAIN SentRequest.options \subseteq {"apply", "reboot", "importkeys"}

C9_Witness ==
    /\ Requested
    /\ command = "Install"
    /\ kwargs["no-commit"] /\ ~kwargs["reboot"] /\ kwargs["import-keys"]
    /\ ~SentRequest.options.apply
    /\ SentRequest.options.importkeys

\* C10: with status true the dependency title and the document list of the
\* server's 'deps' are rendered if and only if 'deps' is non-empty,
\* independently of 'resolved', and always after the resolved table or the
\* nothing-to-do message.
C10_DepsTable ==
    (SucceededDone /\ task[1].result.status) =>
        LET depsTitle == render_title(<<IF command = "Install" THEN "Installed for dependency"
                                        ELSE "Uninstalled for dependency">>)
            cols == <<"name", "version", "arch", "repoid">>
            first == IF Details.resolved # <<>> THEN 3 ELSE 2
            n == Len(SucceededOut)
        IN
        IF Details.deps # <<>>
        THEN /\ n = first + 2
             /\ SucceededOut[n - 1] = depsTitle
             /\ SucceededOut[n] = render_document_list(Details.deps, cols, cols)
             /\ \A i \in 1..first : SucceededOut[i] # depsTitle
        ELSE /\ n = first
             /\ \A i \in 1..n : SucceededOut[i] # depsTitle

C10_Witness ==
    /\ SucceededDone
    /\ task[1].result.status
    /\ Details.resolved = <<>>
    /\ Len(Details.deps) = 2
    /\ Len(SucceededOut) = 4
    /\ SucceededOut[2].method = "render_success_message"

====
